---- MODULE Spec2Model ----
(***************************************************************************)
(* A model of scof: the marking codec of src/note/mod.rs (Note::from_str   *)
(* and Display for Note) and the cursor navigation and score operations of *)
(* src/lib.rs (Cursor::left, Cursor::right, Scof::marking_len,             *)
(* Scof::marking, Scof::set_pitch, Scof::new_measure), the arithmetic and   *)
(* ordering of src/fraction.rs, the dots, text form and fraction of        *)
(* src/note/duration.rs and the diatonic steps of src/note/mod.rs.         *)
(*                                                                         *)
(* Text is a sequence of one-character strings; indices into text are the  *)
(* 0-based byte offsets the Rust code uses (every modelled character is    *)
(* ASCII, so char_indices() yields 0, 1, 2, ...).  A panic of the Rust     *)
(* code is an outcome of its own ("panic"), distinct from Err / None.      *)
(***************************************************************************)
EXTENDS Integers, Sequences, FiniteSets, TLC

\* ---------------------------------------------------------------- bounds

\* longest marking text handed to Note::from_str
MaxTextLen == 5
\* codec calls (from_str / fmt) made in one run
MaxCodecSteps == 2
\* measures (Bars) of movement 0 in an initial score
MaxMeasures == 2
\* channels of a Bar
MaxChans == 2
\* markings of a channel
MaxMarkings == 4
\* set_pitch calls made in one run
MaxEdits == 1
\* augment / diminish calls made on one Duration
MaxDurCalls == 5
\* longest Duration text of arbitrary characters
MaxDurTextLen == 3
\* most dots written after a single denomination letter
MaxDurDots == 5
\* new_measure calls made in one run
MaxGrows == 2

\* largest value of a u8 (Fraction.num, Fraction.den, str::parse::<u8>)
U8Max == 255

VARIABLES
    text,      \* codec: the marking text at hand
    note,      \* codec: the Note at hand
    outcome,   \* codec: "none", "ok", "err" or "panic" of the last from_str
    have,      \* codec: "text" or "note": which of the two is current
    steps,     \* codec: codec calls made so far
    text0,     \* codec: the text the run started from (<<>> when from a Note)
    note0,     \* codec: the Note the run started from
    from,      \* codec: "text" or "note": what the run started from
    snote,     \* steps: the Note at hand
    sprev,     \* steps: the Note before the last step
    scall,     \* steps: the last call, "step_up" or "step_down"
    score,     \* the Scof: its movements (Bars, channels, marking texts)
    cursor,    \* the caller's Cursor
    fault,     \* TRUE once a call has panicked: the program has aborted
    op,        \* the last call made, with the cursor and score it was given
    got,       \* what the last call returned, when it was a query
    edits,     \* set_pitch / new_measure calls made so far
    anchored,  \* whether the run's first cursor addressed an existing marking
    checks,    \* fraction: whether the build has overflow checks (debug) or not
    fa,        \* fraction: the left operand
    fb,        \* fraction: the right operand
    fc,        \* fraction: the third operand of a sum of three
    fop,       \* fraction: the last operation applied
    fres,      \* fraction: its outcome
    fres2,     \* fraction: the outcome of the same sum swapped or regrouped
    dur,       \* duration: the Duration at hand
    dprev,     \* duration: the Duration before the last call
    dcall,     \* duration: the last call, "augment" or "diminish"
    dcalls,    \* duration: calls made so far
    raised,    \* duration: whether every call so far was augment
    dfrac,     \* duration: what fraction() returned, when it was called
    dtext,     \* duration: the text given to Duration2::from_str
    dres,      \* duration: what from_str returned
    dfmt       \* duration: the texts of the parsed Durations, when formatted

codecVars == <<text, note, outcome, have, steps, text0, note0, from,
              snote, sprev, scall>>
scoreVars == <<score, cursor, fault, op, got, edits, anchored>>
fracVars == <<checks, fa, fb, fc, fop, fres, fres2>>
durVars == <<dur, dprev, dcall, dcalls, raised, dfrac, dtext, dres, dfmt>>
vars == <<text, note, outcome, have, steps, text0, note0, from,
          snote, sprev, scall,
          score, cursor, fault, op, got, edits, anchored,
          checks, fa, fb, fc, fop, fres, fres2,
          dur, dprev, dcall, dcalls, raised, dfrac, dtext, dres, dfmt>>

\* ------------------------------------------------------------ characters

Digits == {"0", "1", "2", "3", "4", "5", "6", "7", "8", "9"}

\* char::is_numeric, on the ASCII characters of the model
IsNumeric(c) == c \in Digits

DigitVal(c) ==
    CASE c = "0" -> 0 [] c = "1" -> 1 [] c = "2" -> 2 [] c = "3" -> 3
      [] c = "4" -> 4 [] c = "5" -> 5 [] c = "6" -> 6 [] c = "7" -> 7
      [] c = "8" -> 8 [] c = "9" -> 9

DigitChar(d) ==
    CASE d = 0 -> "0" [] d = 1 -> "1" [] d = 2 -> "2" [] d = 3 -> "3"
      [] d = 4 -> "4" [] d = 5 -> "5" [] d = 6 -> "6" [] d = 7 -> "7"
      [] d = 8 -> "8" [] d = 9 -> "9"

SeqsUpTo(S, n) == UNION {[1..k -> S] : k \in 0..n}

Min(S) == CHOOSE x \in S : \A y \in S : x <= y

\* &s[b..e] with 0-based byte offsets, b <= e <= len
Slice(s, b, e) == SubSeq(s, b + 1, e)

\* &s[b..]
SliceFrom(s, b) == SubSeq(s, b + 1, Len(s))

\* The scan `for (i, c) in s.char_indices() { if !c.is_numeric() { end_index
\* = i; break; } }` started with end_index = init: the offset of the first
\* non-numeric character, or init when every character is numeric.
ScanDigits(s, init) ==
    LET stops == {i \in 1..Len(s) : ~IsNumeric(s[i])}
    IN  IF stops = {} THEN init ELSE Min(stops) - 1

RECURSIVE DecVal(_)
DecVal(ds) ==
    IF ds = <<>> THEN 0
    ELSE DecVal(SubSeq(ds, 1, Len(ds) - 1)) * 10 + DigitVal(ds[Len(ds)])

\* str::parse::<u8>: -1 stands for Err (empty text, a character that is no
\* digit, a lone sign, a value above u8::MAX); one leading '+' is accepted.
ParseU8(ds) ==
    LET body == IF ds # <<>> /\ ds[1] = "+" THEN Tail(ds) ELSE ds
    IN  IF body = <<>> THEN -1
        ELSE IF \E i \in 1..Len(body) : ~IsNumeric(body[i]) THEN -1
        ELSE IF DecVal(body) > U8Max THEN -1
        ELSE DecVal(body)

\* format!("{}", n) of an unsigned integer
RECURSIVE ToDigits(_)
ToDigits(n) ==
    IF n < 10 THEN <<DigitChar(n)>>
    ELSE Append(ToDigits(n \div 10), DigitChar(n % 10))

\* ------------------------------------------------------------------ Note

PitchNames == {"A", "B", "C", "D", "E", "F", "G"}
Octaves == -1..9

NoPitch == [some |-> FALSE, name |-> "C", accidental |-> "None", octave |-> 0]
SomePitch(n, o) == [some |-> TRUE, name |-> n, accidental |-> "None", octave |-> o]

Pitches == {SomePitch(n, o) : n \in PitchNames, o \in Octaves}

Fraction(n, d) == [num |-> n, den |-> d]

MkNote(p, d) == [pitch |-> p, duration |-> d, articulation |-> <<>>]

NoNote == MkNote(NoPitch, Fraction(0, 0))

Ok(n) == [kind |-> "ok", note |-> n]
Err == [kind |-> "err", note |-> NoNote]
Panic == [kind |-> "panic", note |-> NoNote]

\* impl fmt::Display for PitchOctave
OctaveText(o) == IF o = -1 THEN <<"-">> ELSE <<DigitChar(o)>>

\* impl fmt::Display for Note
NoteDisplay(n) ==
    LET numer == IF n.duration.num # 1
                 THEN ToDigits(n.duration.num) \o <<"/">> ELSE <<>>
        denom == ToDigits(n.duration.den)
        pitch == IF n.pitch.some
                 THEN <<n.pitch.name>> \o OctaveText(n.pitch.octave)
                 ELSE <<"R">>
    IN  numer \o denom \o pitch

\* the `match two[1]` of Note::from_str: -2 stands for `return Err(())`
OctaveOf(c) == IF c = "-" THEN -1 ELSE IF c \in Digits THEN DigitVal(c) ELSE -2

\* "Read note name" of Note::from_str, on the text from end_index on
ReadName(rest, duration) ==
    IF rest = <<"R">> THEN Ok(MkNote(NoPitch, duration))
    ELSE IF Len(rest) < 2 THEN Panic                 \* two[0] / two[1]
    ELSE IF OctaveOf(rest[2]) = -2 THEN Err
    ELSE IF rest[1] \notin PitchNames THEN Panic     \* a => panic!(...)
    ELSE Ok(MkNote(SomePitch(rest[1], OctaveOf(rest[2])), duration))

\* the tuplet branch of Note::from_str: the second scan stores an offset
\* relative to s[start_index..] in end_index
ReadTuplet(s, end1) ==
    LET numer == ParseU8(Slice(s, 0, end1))
        start == end1 + 1
        end2  == ScanDigits(SliceFrom(s, start), start)
        denom == ParseU8(Slice(s, start, end2))
    IN  IF numer = -1 THEN Err
        ELSE IF end2 < start THEN Panic              \* s[start..end]: start > end
        ELSE IF denom = -1 THEN Err
        ELSE ReadName(SliceFrom(s, end2), Fraction(numer, denom))

\* impl FromStr for Note
NoteFromStr(s) ==
    LET end1 == ScanDigits(s, 0)
    IN  IF end1 < Len(s) /\ s[end1 + 1] = "/" THEN ReadTuplet(s, end1)
        ELSE LET denom == ParseU8(Slice(s, 0, end1))
             IN  IF denom = -1 THEN Err
                 ELSE ReadName(SliceFrom(s, end1), Fraction(1, denom))

\* ----------------------------------------------------------------- Scof

\* lib.rs has a Note of its own: the octave is an i8, the duration a pair
LibNote(p, d) == [pitch |-> p, duration |-> d, articulation |-> "None"]

NoLibNote == LibNote(NoPitch, Fraction(0, 0))

Chan(notes) == [notes |-> notes, lyric |-> <<>>]
Bar(chans) == [sig |-> "None", chan |-> chans, repeat |-> <<>>]
Movement(bars) == [sig |-> <<>>, bar |-> bars]

Cursor(m, c, k) == [measure |-> m, chan |-> c, marking |-> k]

\* Scof::marking_str(movement, cursor): the chain of Vec::get calls; has
\* tells Some from None
MarkingStr(sc, movement, cur) ==
    IF /\ movement < Len(sc)
       /\ cur.measure < Len(sc[movement + 1].bar)
       /\ cur.chan < Len(sc[movement + 1].bar[cur.measure + 1].chan)
       /\ cur.marking <
            Len(sc[movement + 1].bar[cur.measure + 1].chan[cur.chan + 1].notes)
    THEN [has |-> TRUE,
          str |-> sc[movement + 1].bar[cur.measure + 1]
                    .chan[cur.chan + 1].notes[cur.marking + 1]]
    ELSE [has |-> FALSE, str |-> <<>>]

\* whether the cursor addresses a stored marking
Addresses(sc, cur) == MarkingStr(sc, 0, cur).has

\* str::parse::<i8> of the one character two[1]: -2 stands for Err
ParseI8Char(c) == IF c \in Digits THEN DigitVal(c) ELSE -2

MarkingNote(n) == [kind |-> "note", note |-> n]
MarkingNone == [kind |-> "none", note |-> NoLibNote]
MarkingPanic == [kind |-> "panic", note |-> NoLibNote]

\* the body of Scof::marking on the stored text: both unwrap()s, both
\* indexings of `two` and the letter match panic
MarkingOfText(string) ==
    LET end   == ScanDigits(string, 0)
        denom == ParseU8(Slice(string, 0, end))
        rest  == SliceFrom(string, end)
    IN  IF denom = -1 THEN MarkingPanic                        \* unwrap()
        ELSE IF rest = <<"R">>
             THEN MarkingNote(LibNote(NoPitch, Fraction(1, denom)))
        ELSE IF Len(rest) < 2 THEN MarkingPanic                \* two[0], two[1]
        ELSE IF ParseI8Char(rest[2]) = -2 THEN MarkingPanic    \* unwrap()
        ELSE IF rest[1] \notin PitchNames THEN MarkingPanic    \* panic!(...)
        ELSE MarkingNote(LibNote(SomePitch(rest[1], ParseI8Char(rest[2])),
                                 Fraction(1, denom)))

\* Scof::marking
Marking(sc, cur) ==
    LET m == MarkingStr(sc, 0, cur)
    IN  IF ~m.has THEN MarkingNone ELSE MarkingOfText(m.str)

\* the loop of Scof::marking_len from curs.marking = i on
RECURSIVE MarkingLenFrom(_, _, _)
MarkingLenFrom(sc, cur, i) ==
    LET r == Marking(sc, Cursor(cur.measure, cur.chan, i))
    IN  IF r.kind = "none" THEN [panic |-> FALSE, len |-> i]
        ELSE IF r.kind = "panic" THEN [panic |-> TRUE, len |-> i]
        ELSE MarkingLenFrom(sc, cur, i + 1)

\* Scof::marking_len
MarkingLen(sc, cur) == MarkingLenFrom(sc, cur, 0)

\* format!("{}", n) of an i8
I8Text(n) == IF n < 0 THEN <<"-">> \o ToDigits(0 - n) ELSE ToDigits(n)

\* the text Scof::set_pitch stores: the leading digit run, the letter, the
\* octave as format!("{}", pitch.1)
SetPitchText(string, p) ==
    Slice(string, 0, ScanDigits(string, 0)) \o <<p.name>> \o I8Text(p.octave)

\* *m = string through Scof::marking_str_mut
StoreMarking(sc, cur, string) ==
    [sc EXCEPT ![1].bar[cur.measure + 1].chan[cur.chan + 1]
                   .notes[cur.marking + 1] = string]

\* Cursor::left as it would be with marking set to the length itself
\* instead of the last index
CursorLeftToLen(sc, cur) ==
    IF cur.marking > 0
    THEN [panic |-> FALSE, cursor |-> [cur EXCEPT !.marking = @ - 1]]
    ELSE IF cur.measure # 0
    THEN LET moved == [cur EXCEPT !.measure = @ - 1]
             r     == MarkingLen(sc, moved)
         IN  IF r.panic THEN [panic |-> TRUE, cursor |-> moved]
             ELSE [panic |-> FALSE, cursor |-> [moved EXCEPT !.marking = r.len]]
    ELSE [panic |-> FALSE, cursor |-> cur]

\* Cursor::left as it would be without the `self.measure != 0` test: the
\* measure index leaves the score at its start
CursorLeftUnclamped(sc, cur) ==
    IF cur.marking > 0
    THEN [panic |-> FALSE, cursor |-> [cur EXCEPT !.marking = @ - 1]]
    ELSE LET moved == [cur EXCEPT !.measure = @ - 1]
             r     == IF moved.measure < 0 THEN [panic |-> FALSE, len |-> 0]
                      ELSE MarkingLen(sc, moved)
         IN  IF r.panic THEN [panic |-> TRUE, cursor |-> moved]
             ELSE [panic |-> FALSE,
                   cursor |-> [moved EXCEPT
                                 !.marking = IF r.len > 0 THEN r.len - 1 ELSE 0]]

\* Cursor::left: the cursor it leaves, and whether marking_len panicked
\* (the measure is decremented before marking_len is called)
CursorLeft(sc, cur) ==
    IF cur.marking > 0
    THEN [panic |-> FALSE, cursor |-> [cur EXCEPT !.marking = @ - 1]]
    ELSE IF cur.measure # 0
    THEN LET moved == [cur EXCEPT !.measure = @ - 1]
             r     == MarkingLen(sc, moved)
         IN  IF r.panic THEN [panic |-> TRUE, cursor |-> moved]
             ELSE [panic |-> FALSE,
                   cursor |-> [moved EXCEPT
                                 !.marking = IF r.len > 0 THEN r.len - 1 ELSE 0]]
    ELSE [panic |-> FALSE, cursor |-> cur]

\* Cursor::right as it would be if it stayed put when measure + 1 is not a
\* measure of the score
CursorRightClamped(sc, cur) ==
    LET r == MarkingLen(sc, cur)
    IN  IF r.panic THEN [panic |-> TRUE, cursor |-> cur]
        ELSE IF cur.marking + 1 < r.len
        THEN [panic |-> FALSE, cursor |-> [cur EXCEPT !.marking = @ + 1]]
        ELSE IF Len(sc) > 0 /\ cur.measure + 1 < Len(sc[1].bar)
        THEN [panic |-> FALSE,
              cursor |-> [cur EXCEPT !.measure = @ + 1, !.marking = 0]]
        ELSE [panic |-> FALSE, cursor |-> cur]

\* Cursor::right
CursorRight(sc, cur) ==
    LET r == MarkingLen(sc, cur)
    IN  IF r.panic THEN [panic |-> TRUE, cursor |-> cur]
        ELSE IF cur.marking + 1 < r.len
        THEN [panic |-> FALSE, cursor |-> [cur EXCEPT !.marking = @ + 1]]
        ELSE [panic |-> FALSE,
              cursor |-> [cur EXCEPT !.measure = @ + 1, !.marking = 0]]

\* Scof::set_pitch: the score it leaves, and whether unwrap() panicked
ScofSetPitch(sc, cur, p) ==
    LET m == MarkingStr(sc, 0, cur)
    IN  IF ~m.has THEN [panic |-> TRUE, score |-> sc]
        ELSE [panic |-> FALSE,
              score |-> StoreMarking(sc, cur, SetPitchText(m.str, p))]

\* Chan::default(): a single whole rest, no lyric
ChanDefault == Chan(<< <<"1", "R">> >>)

\* Scof::last_measure(movement): has tells Some from None
LastMeasure(sc, movement) ==
    IF movement < Len(sc) /\ Len(sc[movement + 1].bar) > 0
    THEN [has |-> TRUE, bar |-> sc[movement + 1].bar[Len(sc[movement + 1].bar)]]
    ELSE [has |-> FALSE, bar |-> Bar(<<>>)]

\* Scof::push_measure(movement, bar)
PushMeasure(sc, movement, bar) ==
    IF movement < Len(sc)
    THEN [sc EXCEPT ![movement + 1].bar = Append(@, bar)]
    ELSE sc

\* new_measure pushing a copy of the last Bar instead of whole rests
ScofNewMeasureCopy(sc) ==
    LET last == LastMeasure(sc, 0)
    IN  IF last.has THEN PushMeasure(sc, 0, last.bar) ELSE sc

\* Scof::new_measure
ScofNewMeasure(sc) ==
    LET last == LastMeasure(sc, 0)
    IN  IF last.has
        THEN PushMeasure(sc, 0,
                 [sig |-> "None",
                  repeat |-> <<>>,
                  chan |-> [c \in 1..Len(last.bar.chan) |-> ChanDefault]])
        ELSE sc


\* ------------------------------------------ steps (note/mod.rs, pitch.rs)

\* PitchOctave::raise and PitchOctave::lower: -2 stands for None
OctaveRaise(o) == IF o = 9 THEN -2 ELSE o + 1
OctaveLower(o) == IF o = -1 THEN -2 ELSE o - 1

\* the letter match of step_up and of step_down
StepUpName ==
    [A |-> "B", B |-> "C", C |-> "D", D |-> "E", E |-> "F", F |-> "G", G |-> "A"]
StepDownName ==
    [A |-> "G", B |-> "A", C |-> "B", D |-> "C", E |-> "D", F |-> "E", G |-> "F"]

\* step_up keeping the octave at the B to C transition
NoteStepUpSameOctave(n, create) ==
    IF ~n.pitch.some THEN [n EXCEPT !.pitch = create]
    ELSE [n EXCEPT !.pitch.name = StepUpName[n.pitch.name]]

\* Note::step_up through move_step: a rest takes the pitch `create`; when
\* raise() is None the pitch is kept as it is
NoteStepUp(n, create) ==
    IF ~n.pitch.some THEN [n EXCEPT !.pitch = create]
    ELSE LET pitch_octave == IF n.pitch.name = "B"
                             THEN OctaveRaise(n.pitch.octave)
                             ELSE n.pitch.octave
         IN  IF pitch_octave = -2 THEN n
             ELSE [n EXCEPT !.pitch.name = StepUpName[n.pitch.name],
                            !.pitch.octave = pitch_octave]

\* Note::step_down through move_step
NoteStepDown(n, create) ==
    IF ~n.pitch.some THEN [n EXCEPT !.pitch = create]
    ELSE LET pitch_octave == IF n.pitch.name = "C"
                             THEN OctaveLower(n.pitch.octave)
                             ELSE n.pitch.octave
         IN  IF pitch_octave = -2 THEN n
             ELSE [n EXCEPT !.pitch.name = StepDownName[n.pitch.name],
                            !.pitch.octave = pitch_octave]

\* ------------------------------------------------ Fraction (fraction.rs)

\* outcomes of an operation on Fractions: a Fraction, an Ordering or a panic
FOk(f) == [kind |-> "ok", val |-> f, ord |-> "none"]
FOrd(o) == [kind |-> "ord", val |-> Fraction(0, 0), ord |-> o]
FPanic == [kind |-> "panic", val |-> Fraction(0, 0), ord |-> "none"]
FNone == [kind |-> "none", val |-> Fraction(0, 0), ord |-> "none"]

\* the u8 a `*`, `+` or `-` of exact value n leaves: with overflow checks
\* (debug builds) a value outside u8 panics, here -1; without them (release
\* builds) it wraps
U8(chk, n) ==
    IF n \in 0..U8Max THEN n
    ELSE IF chk THEN -1
    ELSE ((n % (U8Max + 1)) + (U8Max + 1)) % (U8Max + 1)

\* the loop of gcd_i, entered with a and b both nonzero
RECURSIVE GcdLoop(_, _)
GcdLoop(a, b) ==
    LET a1 == a % b
    IN  IF a1 = 0 THEN b
        ELSE LET b1 == b % a1
             IN  IF b1 = 0 THEN a1 ELSE GcdLoop(a1, b1)

\* gcd_i
GcdI(a, b) == IF a = 0 THEN b ELSE IF b = 0 THEN a ELSE GcdLoop(a, b)

\* Fraction::recip
FractionRecip(f) == Fraction(f.den, f.num)

\* u16 -> u8 by try_into().unwrap_or(0)
TryIntoU8Or0(n) == IF n <= U8Max THEN n ELSE 0

\* impl Mul for Fraction: the products are u16 and cannot overflow; num / gcd
\* panics when both products are 0
FractionMul(a, b) ==
    LET num == a.num * b.num
        den == a.den * b.den
        gcd == GcdI(num, den)
    IN  IF gcd = 0 THEN FPanic
        ELSE FOk(Fraction(TryIntoU8Or0(num \div gcd), TryIntoU8Or0(den \div gcd)))

\* impl Div for Fraction
FractionDiv(a, b) == FractionMul(a, FractionRecip(b))

\* the scale factors of Add with the second branch scaling the wrong side
CommonDenSwapped(chk, a, b) ==
    IF b.den = 0
    THEN [panic |-> TRUE, self_mul |-> 0, other_mul |-> 0, den |-> 0]
    ELSE IF a.den % b.den = 0
    THEN [panic |-> FALSE, self_mul |-> 1, other_mul |-> a.den \div b.den,
          den |-> a.den]
    ELSE IF b.den % a.den = 0
    THEN [panic |-> FALSE, self_mul |-> 1, other_mul |-> b.den \div a.den,
          den |-> b.den]
    ELSE [panic |-> U8(chk, a.den * b.den) = -1, self_mul |-> b.den,
          other_mul |-> a.den, den |-> U8(chk, a.den * b.den)]

\* (self_mul, other_mul, den) of Add and Sub: `self.den % other.den` panics
\* on other.den = 0; a self.den of 0 takes the first branch
CommonDen(chk, a, b) ==
    IF b.den = 0
    THEN [panic |-> TRUE, self_mul |-> 0, other_mul |-> 0, den |-> 0]
    ELSE IF a.den % b.den = 0
    THEN [panic |-> FALSE, self_mul |-> 1, other_mul |-> a.den \div b.den,
          den |-> a.den]
    ELSE IF b.den % a.den = 0
    THEN [panic |-> FALSE, self_mul |-> b.den \div a.den, other_mul |-> 1,
          den |-> b.den]
    ELSE [panic |-> U8(chk, a.den * b.den) = -1, self_mul |-> b.den,
          other_mul |-> a.den, den |-> U8(chk, a.den * b.den)]

\* the Fraction { num / gcd, den / gcd } Add and Sub end with; num is -1 when
\* its computation has panicked
Reduced(num, den) ==
    IF num = -1 THEN FPanic
    ELSE IF GcdI(num, den) = 0 THEN FPanic
    ELSE FOk(Fraction(num \div GcdI(num, den), den \div GcdI(num, den)))

\* impl Add for Fraction: every operation is a u8 operation
FractionAdd(chk, a, b) ==
    LET s == CommonDen(chk, a, b)
        x == U8(chk, a.num * s.self_mul)
        y == U8(chk, b.num * s.other_mul)
    IN  IF s.panic THEN FPanic
        ELSE Reduced(IF x = -1 \/ y = -1 THEN -1 ELSE U8(chk, x + y), s.den)

\* impl Sub for Fraction
FractionSub(chk, a, b) ==
    LET s == CommonDen(chk, a, b)
        x == U8(chk, a.num * s.self_mul)
        y == U8(chk, b.num * s.other_mul)
    IN  IF s.panic THEN FPanic
        ELSE Reduced(IF x = -1 \/ y = -1 THEN -1 ELSE U8(chk, x - y), s.den)

\* the second of two additions: a panic of the first is the outcome
AddTo(chk, r, b) == IF r.kind = "ok" THEN FractionAdd(chk, r.val, b) ELSE FPanic
AddOnto(chk, a, r) == IF r.kind = "ok" THEN FractionAdd(chk, a, r.val) ELSE FPanic

\* impl PartialOrd for Fraction: den is the gcd of the denominators, the
\* factors are i32; den / self.den panics on a denominator of 0
PartialCmp(a, b) ==
    IF a.den = 0 \/ b.den = 0 THEN FPanic
    ELSE LET den == GcdI(a.den, b.den)
             self_mul == den \div a.den
             other_mul == den \div b.den
             num == a.num * self_mul - b.num * other_mul
         IN  FOrd(IF num < 0 THEN "Less" ELSE IF num = 0 THEN "Equal" ELSE "Greater")

\* -------------------------------------------- Duration (note/duration.rs)

\* the variants of enum Duration
DurKinds == {"Den128", "Den64", "Den32", "Den16", "Den8", "Den4", "Den2",
             "Num1", "Num2", "Num4"}

\* a Duration: tuplet numerator n, tuplet denominator d, augmentation dots a
\* (Den128 and Num4 have no dots field: a is 0)
Duration(k, n, d, a) == [kind |-> k, n |-> n, d |-> d, a |-> a]

NoDuration == Duration("none", 0, 0, 0)

\* the dots each variant of the enum allows
DotMax(k) ==
    CASE k = "Den128" -> 0
      [] k = "Den64"  -> 1
      [] k = "Den32"  -> 2
      [] k = "Den16"  -> 3
      [] k = "Den8"   -> 4
      [] k = "Den4"   -> 4
      [] k = "Den2"   -> 3
      [] k = "Num1"   -> 2
      [] k = "Num2"   -> 1
      [] k = "Num4"   -> 0

\* (a + 1).min(m)
IncMin(a, m) == IF a + 1 < m THEN a + 1 ELSE m

\* a.saturating_sub(1)
SaturatingSub1(a) == IF a = 0 THEN 0 ELSE a - 1

\* augment without the min
DurationAugmentUncapped(x) ==
    IF x.kind \in {"Den128", "Num4"} THEN x ELSE [x EXCEPT !.a = @ + 1]

\* Duration::augment
DurationAugment(x) ==
    CASE x.kind = "Den128" -> x
      [] x.kind = "Den64"  -> [x EXCEPT !.a = 1]
      [] x.kind = "Den32"  -> [x EXCEPT !.a = IncMin(@, 2)]
      [] x.kind = "Den16"  -> [x EXCEPT !.a = IncMin(@, 3)]
      [] x.kind = "Den8"   -> [x EXCEPT !.a = IncMin(@, 4)]
      [] x.kind = "Den4"   -> [x EXCEPT !.a = IncMin(@, 4)]
      [] x.kind = "Den2"   -> [x EXCEPT !.a = IncMin(@, 3)]
      [] x.kind = "Num1"   -> [x EXCEPT !.a = IncMin(@, 2)]
      [] x.kind = "Num2"   -> [x EXCEPT !.a = 1]
      [] x.kind = "Num4"   -> x

\* diminish clearing the dots
DurationDiminishToZero(x) == [x EXCEPT !.a = 0]

\* Duration::diminish
DurationDiminish(x) ==
    CASE x.kind = "Den128" -> x
      [] x.kind = "Den64"  -> [x EXCEPT !.a = 0]
      [] x.kind = "Den32"  -> [x EXCEPT !.a = SaturatingSub1(@)]
      [] x.kind = "Den16"  -> [x EXCEPT !.a = SaturatingSub1(@)]
      [] x.kind = "Den8"   -> [x EXCEPT !.a = SaturatingSub1(@)]
      [] x.kind = "Den4"   -> [x EXCEPT !.a = SaturatingSub1(@)]
      [] x.kind = "Den2"   -> [x EXCEPT !.a = SaturatingSub1(@)]
      [] x.kind = "Num1"   -> [x EXCEPT !.a = SaturatingSub1(@)]
      [] x.kind = "Num2"   -> [x EXCEPT !.a = 0]
      [] x.kind = "Num4"   -> x

\* the base fraction of each variant in Duration::fraction
DurationBase(k) ==
    CASE k = "Den128" -> Fraction(1, 128)
      [] k = "Den64"  -> Fraction(1, 64)
      [] k = "Den32"  -> Fraction(1, 32)
      [] k = "Den16"  -> Fraction(1, 16)
      [] k = "Den8"   -> Fraction(1, 8)
      [] k = "Den4"   -> Fraction(1, 4)
      [] k = "Den2"   -> Fraction(1, 2)
      [] k = "Num1"   -> Fraction(1, 1)
      [] k = "Num2"   -> Fraction(2, 1)
      [] k = "Num4"   -> Fraction(4, 1)

\* Duration::fraction: the base times Fraction::new(d, n), by Mul
DurationFraction(x) == FractionMul(DurationBase(x.kind), Fraction(x.d, x.n))

\* the Duration Duration2::from_str pushes for a denomination letter
LetterDuration ==
    [O |-> Duration("Den128", 1, 1, 0), X |-> Duration("Den64", 1, 1, 0),
     Y |-> Duration("Den32", 1, 1, 0),  S |-> Duration("Den16", 1, 1, 0),
     T |-> Duration("Den8", 1, 1, 0),   Q |-> Duration("Den4", 1, 1, 0),
     U |-> Duration("Den2", 1, 1, 0),   W |-> Duration("Num1", 1, 1, 0),
     V |-> Duration("Num2", 1, 1, 0),   L |-> Duration("Num4", 1, 1, 0)]

\* what Duration2::from_str returns: Ok(Duration2(out)) or Err(())
NotParsed == [kind |-> "none", out |-> <<>>]

\* the loop of Duration2::from_str from the character at i on
RECURSIVE FromStrFrom(_, _, _)
FromStrFrom(s, i, out) ==
    IF i > Len(s) THEN [kind |-> "ok", out |-> out]
    ELSE IF s[i] \in DOMAIN LetterDuration
         THEN FromStrFrom(s, i + 1, Append(out, LetterDuration[s[i]]))
    ELSE IF s[i] = "." /\ out # <<>>
         THEN FromStrFrom(s, i + 1,
                  [out EXCEPT ![Len(out)] = DurationAugment(@)])
    ELSE [kind |-> "err", out |-> <<>>]

\* Duration2::from_str
Duration2FromStr(s) == FromStrFrom(s, 1, <<>>)

\* Display for Duration with every variant written as a bare letter
DurationDisplayBare(x) ==
    <<CHOOSE c \in DOMAIN LetterDuration : LetterDuration[c].kind = x.kind>>

\* Display for Duration: Den128 and Num4 write their letter, the others their
\* letter and one '.' per dot
DurationDisplay(x) ==
    CASE x.kind = "Den128" -> <<"O">>
      [] x.kind = "Den64"  -> <<"X">> \o [i \in 1..x.a |-> "."]
      [] x.kind = "Den32"  -> <<"Y">> \o [i \in 1..x.a |-> "."]
      [] x.kind = "Den16"  -> <<"S">> \o [i \in 1..x.a |-> "."]
      [] x.kind = "Den8"   -> <<"T">> \o [i \in 1..x.a |-> "."]
      [] x.kind = "Den4"   -> <<"Q">> \o [i \in 1..x.a |-> "."]
      [] x.kind = "Den2"   -> <<"U">> \o [i \in 1..x.a |-> "."]
      [] x.kind = "Num1"   -> <<"W">> \o [i \in 1..x.a |-> "."]
      [] x.kind = "Num2"   -> <<"V">> \o [i \in 1..x.a |-> "."]
      [] x.kind = "Num4"   -> <<"L">>

\* ------------------------------------------------------ the score's inputs

\* the channel of the spec's example, repeated as far as needed
TuneBase == << <<"4", "C", "4">>, <<"4", "D", "4">>, <<"8", "R">>,
               <<"2", "E", "4">> >>

Tune(k) == [i \in 1..k |-> TuneBase[((i - 1) % Len(TuneBase)) + 1]]

\* texts Scof::marking does not read as a Note: a letter that names no
\* pitch, no digit run, no octave, the octave sign
BadMarkings == << <<"4", "H", "4">>, <<"C", "4">>, <<"4", "C">>,
                  <<"4", "C", "-">> >>

\* Tune(k) with its last marking replaced by a bad one
Broken(c, k) ==
    [i \in 1..k |-> IF i = k THEN BadMarkings[((c + k) % Len(BadMarkings)) + 1]
                    ELSE Tune(k)[i]]

\* channel lengths: empty, a single marking, full
ChanLens == {0, 1, MaxMarkings}

\* Bars: no channel, or n channels of k markings each, channel 0 well
\* formed, the others ending in a bad marking
BarPool ==
    {Bar(<<>>)} \cup
    {Bar([c \in 1..n |-> Chan(IF c = 1 THEN Tune(k) ELSE Broken(c - 1, k))]) :
        n \in 1..MaxChans, k \in ChanLens}

\* Scofs: no movement at all, or one movement of up to MaxMeasures Bars
Scores == {<<>>} \cup {<<Movement(bars)>> : bars \in SeqsUpTo(BarPool, MaxMeasures)}

\* Cursor::new takes any three indices, inside the score or not
Cursors == {Cursor(m, c, k) :
              m \in 0..MaxMeasures, c \in 0..MaxChans, k \in 0..MaxMarkings}

NoPitchArg == NoPitch
Call(name, cur, sc, p) == [name |-> name, cursor |-> cur, score |-> sc, pitch |-> p]
NoCall == Call("none", Cursor(0, 0, 0), <<>>, NoPitchArg)
GotNothing == [kind |-> "nothing", len |-> 0, note |-> NoLibNote]

ScoreIdle ==
    /\ score = <<>>
    /\ cursor = Cursor(0, 0, 0)
    /\ fault = FALSE
    /\ op = NoCall
    /\ got = GotNothing
    /\ edits = 0
    /\ anchored = FALSE

CodecIdle ==
    /\ text = <<>>
    /\ note = NoNote
    /\ outcome = "none"
    /\ have = "none"
    /\ steps = 0
    /\ text0 = <<>>
    /\ note0 = NoNote
    /\ from = "none"
    /\ snote = NoNote
    /\ sprev = NoNote
    /\ scall = "none"

FracIdle ==
    /\ checks = FALSE
    /\ fa = Fraction(0, 0)
    /\ fb = Fraction(0, 0)
    /\ fc = Fraction(0, 0)
    /\ fop = "none"
    /\ fres = FNone
    /\ fres2 = FNone

DurIdle ==
    /\ dur = NoDuration
    /\ dprev = NoDuration
    /\ dcall = "none"
    /\ dcalls = 0
    /\ raised = FALSE
    /\ dfrac = FNone
    /\ dtext = <<>>
    /\ dres = NotParsed
    /\ dfmt = <<>>

\* ------------------------------------------------------- navigation runs

NavInit ==
    /\ CodecIdle
    /\ FracIdle
    /\ DurIdle
    /\ score \in Scores
    /\ cursor \in Cursors
    /\ fault = FALSE
    /\ op = NoCall
    /\ got = GotNothing
    /\ edits = 0
    /\ anchored = Addresses(score, cursor)

\* cursor.left(&scof)
Left ==
    /\ ~fault
    /\ LET r == CursorLeft(score, cursor)
       IN  /\ cursor' = r.cursor
           /\ fault' = r.panic
    /\ op' = Call("left", cursor, score, NoPitchArg)
    /\ got' = GotNothing
    /\ UNCHANGED <<score, edits, anchored>>
    /\ UNCHANGED <<codecVars, fracVars, durVars>>

\* cursor.right(&scof); the model stops one measure past its largest score
Right ==
    /\ ~fault
    /\ cursor.measure <= MaxMeasures
    /\ LET r == CursorRight(score, cursor)
       IN  /\ cursor' = r.cursor
           /\ fault' = r.panic
    /\ op' = Call("right", cursor, score, NoPitchArg)
    /\ got' = GotNothing
    /\ UNCHANGED <<score, edits, anchored>>
    /\ UNCHANGED <<codecVars, fracVars, durVars>>

\* scof.marking_len(&cursor)
QueryLen ==
    /\ ~fault
    /\ LET r == MarkingLen(score, cursor)
       IN  /\ fault' = r.panic
           /\ got' = IF r.panic THEN GotNothing
                     ELSE [kind |-> "len", len |-> r.len, note |-> NoLibNote]
    /\ op' = Call("marking_len", cursor, score, NoPitchArg)
    /\ UNCHANGED <<score, cursor, edits, anchored>>
    /\ UNCHANGED <<codecVars, fracVars, durVars>>

\* scof.marking(&cursor)
QueryMarking ==
    /\ ~fault
    /\ LET r == Marking(score, cursor)
       IN  /\ fault' = (r.kind = "panic")
           /\ got' = IF r.kind = "panic" THEN GotNothing
                     ELSE [kind |-> r.kind, len |-> 0, note |-> r.note]
    /\ op' = Call("marking", cursor, score, NoPitchArg)
    /\ UNCHANGED <<score, cursor, edits, anchored>>
    /\ UNCHANGED <<codecVars, fracVars, durVars>>

NavNext == Left \/ Right \/ QueryLen \/ QueryMarking

SpecNav == NavInit /\ [][NavNext]_vars

\* ------------------------------------------------------------ edit runs

\* scof.set_pitch(&cursor, pitch)
SetPitch(p) ==
    /\ ~fault
    /\ edits < MaxEdits
    /\ LET r == ScofSetPitch(score, cursor, p)
       IN  /\ score' = r.score
           /\ fault' = r.panic
    /\ op' = Call("set_pitch", cursor, score, p)
    /\ got' = GotNothing
    /\ edits' = edits + 1
    /\ UNCHANGED <<cursor, anchored>>
    /\ UNCHANGED <<codecVars, fracVars, durVars>>

\* the marking at the cursor is read back after the edit
ReadBack ==
    /\ ~fault
    /\ op.name = "set_pitch"
    /\ got.kind = "nothing"
    /\ LET r == Marking(score, cursor)
       IN  /\ fault' = (r.kind = "panic")
           /\ got' = IF r.kind = "panic" THEN GotNothing
                     ELSE [kind |-> r.kind, len |-> 0, note |-> r.note]
    /\ UNCHANGED <<score, cursor, op, edits, anchored>>
    /\ UNCHANGED <<codecVars, fracVars, durVars>>

EditNext == (\E p \in Pitches : SetPitch(p)) \/ ReadBack

SpecEdit == NavInit /\ [][EditNext]_vars

\* ------------------------------------------------------------ grow runs

\* scof.new_measure()
NewMeasure ==
    /\ ~fault
    /\ edits < MaxGrows
    /\ score' = ScofNewMeasure(score)
    /\ op' = Call("new_measure", cursor, score, NoPitchArg)
    /\ got' = GotNothing
    /\ edits' = edits + 1
    /\ UNCHANGED <<cursor, fault, anchored>>
    /\ UNCHANGED <<codecVars, fracVars, durVars>>

GrowNext == NewMeasure \/ QueryLen

SpecGrow == NavInit /\ [][GrowNext]_vars

\* ------------------------------------------------------ round trips

\* scores as in the navigation runs, and with Bars whose only channel ends
\* in a marking that is no Note
TripInit ==
    /\ CodecIdle
    /\ FracIdle
    /\ DurIdle
    /\ score \in {<<>>} \cup
                 {<<Movement(bars)>> :
                    bars \in SeqsUpTo(BarPool \cup
                                      {Bar(<<Chan(Broken(0, k))>>) :
                                         k \in ChanLens \ {0}},
                                      MaxMeasures)}
    /\ cursor \in Cursors
    /\ fault = FALSE
    /\ op = NoCall
    /\ got = GotNothing
    /\ edits = 0
    /\ anchored = Addresses(score, cursor)

\* cursor.right(&scof); cursor.left(&scof)
RightLeft ==
    /\ ~fault
    /\ cursor.measure <= MaxMeasures
    /\ LET r == CursorRight(score, cursor)
           l == CursorLeft(score, r.cursor)
       IN  /\ cursor' = IF r.panic THEN r.cursor ELSE l.cursor
           /\ fault' = (r.panic \/ l.panic)
    /\ op' = Call("right_left", cursor, score, NoPitchArg)
    /\ got' = GotNothing
    /\ UNCHANGED <<score, edits, anchored>>
    /\ UNCHANGED <<codecVars, fracVars, durVars>>

\* cursor.left(&scof); cursor.right(&scof)
LeftRight ==
    /\ ~fault
    /\ cursor.measure <= MaxMeasures
    /\ LET l == CursorLeft(score, cursor)
           r == CursorRight(score, l.cursor)
       IN  /\ cursor' = IF l.panic THEN l.cursor ELSE r.cursor
           /\ fault' = (l.panic \/ r.panic)
    /\ op' = Call("left_right", cursor, score, NoPitchArg)
    /\ got' = GotNothing
    /\ UNCHANGED <<score, edits, anchored>>
    /\ UNCHANGED <<codecVars, fracVars, durVars>>

TripNext == RightLeft \/ LeftRight

SpecTrip == TripInit /\ [][TripNext]_vars

\* ----------------------------------------------------- the codec's inputs

\* the characters marking texts are drawn from: digits (256 exceeds a u8),
\* the tuplet slash, the rest letter, a pitch letter, a letter that names no
\* pitch, the octave sign
TextChars == {"1", "2", "5", "6", "/", "R", "C", "H", "-"}

Texts == SeqsUpTo(TextChars, MaxTextLen)

\* in-memory Notes: a rest or any letter with any octave, durations with
\* numerator 1 and other than 1, up to the largest u8
NoteNums == {1, 2, 3, 12, U8Max}
NoteDens == {1, 4, 16, 128, U8Max}
Notes == {MkNote(p, Fraction(n, d)) :
            p \in Pitches \cup {NoPitch}, n \in NoteNums, d \in NoteDens}

\* ------------------------------------------------------ the codec's runs

CodecInit ==
    /\ ScoreIdle
    /\ FracIdle
    /\ DurIdle
    /\ from \in {"text", "note"}
    /\ have = from
    /\ text0 \in (IF from = "text" THEN Texts ELSE {<<>>})
    /\ note0 \in (IF from = "note" THEN Notes ELSE {NoNote})
    /\ text = text0
    /\ note = note0
    /\ outcome = "none"
    /\ steps = 0
    /\ snote = NoNote
    /\ sprev = NoNote
    /\ scall = "none"

\* s.parse::<Note>() on the text at hand
FromStr ==
    /\ have = "text"
    /\ steps < MaxCodecSteps
    /\ LET r == NoteFromStr(text)
       IN  /\ outcome' = r.kind
           /\ note' = r.note
           /\ have' = IF r.kind = "ok" THEN "note" ELSE "none"
    /\ steps' = steps + 1
    /\ UNCHANGED <<text, text0, note0, from, snote, sprev, scall>>
    /\ UNCHANGED <<scoreVars, fracVars, durVars>>

\* format!("{}", note) on the Note at hand
Display ==
    /\ have = "note"
    /\ steps < MaxCodecSteps
    /\ text' = NoteDisplay(note)
    /\ have' = "text"
    /\ steps' = steps + 1
    /\ UNCHANGED <<note, outcome, text0, note0, from, snote, sprev, scall>>
    /\ UNCHANGED <<scoreVars, fracVars, durVars>>

CodecNext == FromStr \/ Display

SpecCodec == CodecInit /\ [][CodecNext]_vars

\* --------------------------------------------------- the fraction's inputs

\* numerators: zero, the numerators of the tests, the largest u8
FracNums == {0, 1, 3, 5, U8Max}
\* denominators: those of the tests, and pairs whose product exceeds a u8
\* while their least common multiple does not
FracDens == {1, 2, 3, 4, 5, 16, 24, 64}

Fracs == {Fraction(n, d) : n \in FracNums, d \in FracDens}

\* third operands of a sum of three
FracThirds == {Fraction(n, d) : n \in {1, 3}, d \in {4, 24}}

\* --------------------------------------------------- the fraction's runs

FracInit ==
    /\ CodecIdle
    /\ ScoreIdle
    /\ DurIdle
    /\ checks \in BOOLEAN
    /\ fa \in Fracs
    /\ fb \in Fracs
    /\ fc \in FracThirds
    /\ fop = "none"
    /\ fres = FNone
    /\ fres2 = FNone

\* fa + fb
Add ==
    /\ fop' = "add"
    /\ fres' = FractionAdd(checks, fa, fb)
    /\ fres2' = FNone
    /\ UNCHANGED <<checks, fa, fb, fc>>
    /\ UNCHANGED <<codecVars, scoreVars, durVars>>

\* fa - fb
Sub ==
    /\ fop' = "sub"
    /\ fres' = FractionSub(checks, fa, fb)
    /\ fres2' = FNone
    /\ UNCHANGED <<checks, fa, fb, fc>>
    /\ UNCHANGED <<codecVars, scoreVars, durVars>>

\* fa * fb
Mul ==
    /\ fop' = "mul"
    /\ fres' = FractionMul(fa, fb)
    /\ fres2' = FNone
    /\ UNCHANGED <<checks, fa, fb, fc>>
    /\ UNCHANGED <<codecVars, scoreVars, durVars>>

\* fa / fb
Div ==
    /\ fop' = "div"
    /\ fres' = FractionDiv(fa, fb)
    /\ fres2' = FNone
    /\ UNCHANGED <<checks, fa, fb, fc>>
    /\ UNCHANGED <<codecVars, scoreVars, durVars>>

\* fa.partial_cmp(&fb)
Compare ==
    /\ fop' = "cmp"
    /\ fres' = PartialCmp(fa, fb)
    /\ fres2' = FNone
    /\ UNCHANGED <<checks, fa, fb, fc>>
    /\ UNCHANGED <<codecVars, scoreVars, durVars>>

\* fa + fb and fb + fa
AddBothWays ==
    /\ fop' = "add2"
    /\ fres' = FractionAdd(checks, fa, fb)
    /\ fres2' = FractionAdd(checks, fb, fa)
    /\ UNCHANGED <<checks, fa, fb, fc>>
    /\ UNCHANGED <<codecVars, scoreVars, durVars>>

\* (fa + fb) + fc and fa + (fb + fc)
AddThree ==
    /\ fop' = "add3"
    /\ fres' = AddTo(checks, FractionAdd(checks, fa, fb), fc)
    /\ fres2' = AddOnto(checks, fa, FractionAdd(checks, fb, fc))
    /\ UNCHANGED <<checks, fa, fb, fc>>
    /\ UNCHANGED <<codecVars, scoreVars, durVars>>

FracNext == Add \/ Sub \/ Mul \/ Div \/ Compare \/ AddBothWays \/ AddThree

SpecFrac == FracInit /\ [][FracNext]_vars

\* --------------------------------------------------- the duration's runs

\* tuplets: none, a triplet, a quintuplet, three in the time of one
Tuplets == {<<1, 1>>, <<3, 2>>, <<5, 4>>, <<3, 1>>}

\* a dot-free Duration, as Duration2::from_str pushes for a letter
DurInit ==
    /\ CodecIdle
    /\ ScoreIdle
    /\ FracIdle
    /\ dur \in {Duration(k, t[1], t[2], 0) : k \in DurKinds, t \in Tuplets}
    /\ dprev = dur
    /\ dcall = "none"
    /\ dcalls = 0
    /\ raised = TRUE
    /\ dfrac = FNone
    /\ dtext = <<>>
    /\ dres = NotParsed
    /\ dfmt = <<>>

\* dur.augment()
Augment ==
    /\ dcalls < MaxDurCalls
    /\ dprev' = dur
    /\ dur' = DurationAugment(dur)
    /\ dcall' = "augment"
    /\ dcalls' = dcalls + 1
    /\ UNCHANGED <<raised, dfrac, dtext, dres, dfmt>>
    /\ UNCHANGED <<codecVars, scoreVars, fracVars>>

\* dur.diminish()
Diminish ==
    /\ dcalls < MaxDurCalls
    /\ dprev' = dur
    /\ dur' = DurationDiminish(dur)
    /\ dcall' = "diminish"
    /\ dcalls' = dcalls + 1
    /\ raised' = FALSE
    /\ UNCHANGED <<dfrac, dtext, dres, dfmt>>
    /\ UNCHANGED <<codecVars, scoreVars, fracVars>>

\* dur.fraction()
ToFraction ==
    /\ dfrac' = DurationFraction(dur)
    /\ UNCHANGED <<dur, dprev, dcall, dcalls, raised, dtext, dres, dfmt>>
    /\ UNCHANGED <<codecVars, scoreVars, fracVars>>

DurNext == Augment \/ Diminish \/ ToFraction

SpecDur == DurInit /\ [][DurNext]_vars

\* ----------------------------------------------- the duration text's runs

\* the characters of a Duration text: the ten letters, the dot, a letter
\* that names no denomination
DurChars == DOMAIN LetterDuration \cup {".", "q"}

\* texts: any characters up to MaxDurTextLen, and each letter with up to
\* MaxDurDots dots
DurTexts ==
    SeqsUpTo(DurChars, MaxDurTextLen) \cup
    {<<c>> \o [i \in 1..k |-> "."] : c \in DOMAIN LetterDuration, k \in 0..MaxDurDots}

DurTextInit ==
    /\ CodecIdle
    /\ ScoreIdle
    /\ FracIdle
    /\ dur = NoDuration
    /\ dprev = NoDuration
    /\ dcall = "none"
    /\ dcalls = 0
    /\ raised = FALSE
    /\ dfrac = FNone
    /\ dtext \in DurTexts
    /\ dres = NotParsed
    /\ dfmt = <<>>

\* dtext.parse::<Duration2>()
ParseDuration ==
    /\ dres = NotParsed
    /\ dres' = Duration2FromStr(dtext)
    /\ UNCHANGED <<dur, dprev, dcall, dcalls, raised, dfrac, dtext, dfmt>>
    /\ UNCHANGED <<codecVars, scoreVars, fracVars>>

\* format!("{}", d) of each parsed Duration
FormatDurations ==
    /\ dres.kind = "ok"
    /\ dfmt' = [i \in 1..Len(dres.out) |-> DurationDisplay(dres.out[i])]
    /\ UNCHANGED <<dur, dprev, dcall, dcalls, raised, dfrac, dtext, dres>>
    /\ UNCHANGED <<codecVars, scoreVars, fracVars>>

DurTextNext == ParseDuration \/ FormatDurations

SpecDurText == DurTextInit /\ [][DurTextNext]_vars

\* ------------------------------------------------------- the step's runs

\* Notes to step: a rest or any letter and octave, without and with an
\* accidental, two durations, without and with an articulation
StepNotes ==
    {[pitch |-> [p EXCEPT !.accidental = IF p.some THEN a ELSE "None"],
      duration |-> d, articulation |-> art] :
        p \in Pitches \cup {NoPitch}, a \in {"None", "Sharp"},
        d \in {Fraction(1, 4), Fraction(3, 8)},
        art \in {<<>>, <<"Staccato">>}}

StepInit ==
    /\ ScoreIdle
    /\ FracIdle
    /\ DurIdle
    /\ text = <<>>
    /\ note = NoNote
    /\ outcome = "none"
    /\ have = "none"
    /\ steps = 0
    /\ text0 = <<>>
    /\ note0 = NoNote
    /\ from = "none"
    /\ snote \in StepNotes
    /\ sprev = snote
    /\ scall = "none"

\* snote = snote.step_up(create)
StepUp(create) ==
    /\ sprev' = snote
    /\ snote' = NoteStepUp(snote, create)
    /\ scall' = "step_up"
    /\ UNCHANGED <<text, note, outcome, have, steps, text0, note0, from>>
    /\ UNCHANGED <<scoreVars, fracVars, durVars>>

\* snote = snote.step_down(create)
StepDown(create) ==
    /\ sprev' = snote
    /\ snote' = NoteStepDown(snote, create)
    /\ scall' = "step_down"
    /\ UNCHANGED <<text, note, outcome, have, steps, text0, note0, from>>
    /\ UNCHANGED <<scoreVars, fracVars, durVars>>

StepNext ==
    \E create \in {SomePitch("C", 4)} : StepUp(create) \/ StepDown(create)

SpecStep == StepInit /\ [][StepNext]_vars

\* ------------------------------------------------- the marking grammar

\* a non-empty run of decimal digits
IsDigitRun(ds) == ds # <<>> /\ \A i \in 1..Len(ds) : ds[i] \in Digits

\* duration := [ digits "/" ] digits
IsDurationText(d) ==
    \/ IsDigitRun(d)
    \/ \E j \in 1..Len(d) :
          /\ d[j] = "/"
          /\ IsDigitRun(SubSeq(d, 1, j - 1))
          /\ IsDigitRun(SubSeq(d, j + 1, Len(d)))

\* pitch-or-rest := "R" | letter octave-char
IsPitchOrRest(r) ==
    \/ r = <<"R">>
    \/ Len(r) = 2 /\ r[1] \in PitchNames /\ r[2] \in Digits \cup {"-"}

\* marking := duration pitch-or-rest, matched in full
WellFormed(s) ==
    \E i \in 0..Len(s) :
        IsDurationText(SubSeq(s, 1, i)) /\ IsPitchOrRest(SubSeq(s, i + 1, Len(s)))

\* --------------------------------------------------- claims on the codec

\* C1: for every marking text that matches the grammar in full, the tuplet
\* prefix included, parsing it as a Note succeeds and formatting the parsed
\* Note yields exactly the text.
C1_TextRoundTrip ==
    (from = "text" /\ WellFormed(text0)) =>
        /\ steps >= 1 => outcome = "ok"
        /\ steps >= 2 => text = text0

\* C2: parsing any text as a Note ends with a Note or a parse failure, never
\* with a panic.
C2_ParseNeverPanics ==
    (from = "text" /\ steps >= 1) => outcome \in {"ok", "err"}

\* C3: a text that does not match the grammar in full is never parsed into a
\* Note; in particular extra characters after the octave character are not
\* ignored.  (That the rejection is a failure value and not a panic is C2's
\* subject: this formula accepts either.)
C3_MalformedRejected ==
    (from = "text" /\ steps >= 1 /\ ~WellFormed(text0)) => outcome # "ok"

\* C4: for every in-memory Note, numerator 1 or not, parsing its formatted
\* text succeeds and gives back the same pitch and the same duration.
C4_NoteRoundTrip ==
    (from = "note" /\ steps >= 2) =>
        /\ outcome = "ok"
        /\ note.pitch = note0.pitch
        /\ note.duration = note0.duration

\* --------------------------------------------- claims on the navigation

\* the Bars of movement 0 (none when the score has no movement)
BarsOf(sc) == IF Len(sc) = 0 THEN <<>> ELSE sc[1].bar

\* the marking texts stored in channel c of measure m (none when either is
\* missing)
StoredNotes(sc, m, c) ==
    IF m < Len(BarsOf(sc)) /\ c < Len(BarsOf(sc)[m + 1].chan)
    THEN BarsOf(sc)[m + 1].chan[c + 1].notes
    ELSE <<>>

\* the first index at which channel c of measure m has no marking or the
\* marking does not read as a Note
FirstGap(sc, m, c) ==
    LET notes == StoredNotes(sc, m, c)
    IN  Min({i \in 0..Len(notes) :
               i = Len(notes) \/ MarkingOfText(notes[i + 1]).kind # "note"})

C7_MeasureStaysInScore ==
    anchored => cursor.measure < Len(BarsOf(score))

\* C7, amended: navigation clamps at the start of the document only.  No
\* index of the cursor ever goes below 0, a left call from an existing measure
\* leaves the cursor in an existing measure, and a right call moves the
\* measure index forward by at most one, past the last measure too.
C7_ClampsAtStartOnly ==
    /\ cursor.measure >= 0
    /\ cursor.marking >= 0
    /\ (op.name = "left" /\ op.cursor.measure < Len(BarsOf(score))) =>
          cursor.measure < Len(BarsOf(score))
    /\ op.name = "right" =>
          /\ cursor.measure >= op.cursor.measure
          /\ cursor.measure <= op.cursor.measure + 1

\* a run that began at an existing marking has been moved past the last
\* measure by right
C7_MovedPastEnd ==
    /\ anchored
    /\ op.name = "right"
    /\ ~fault
    /\ cursor.measure >= Len(BarsOf(score))

\* C8: marking_len returns the first index at which the addressed channel has
\* no marking or the marking does not parse, whatever cursor.marking is: 0 for
\* a missing measure or channel, the stored count when every marking parses,
\* and a marking that does not parse ends the count instead of aborting.
C8_MarkingLen ==
    op.name = "marking_len" =>
        /\ ~fault
        /\ got.kind = "len"
        /\ got.len = FirstGap(score, cursor.measure, cursor.chan)

\* ---------------------------------------------------- claims on the edits

\* C9: set_pitch at a marking that reads as a Note leaves a marking that
\* reads as a Note with the pitch given and the duration it had, and changes
\* nothing else in the score.
C9_SetPitchRoundTrip ==
    (op.name = "set_pitch" /\ Marking(op.score, op.cursor).kind = "note") =>
        /\ ~fault
        /\ Marking(score, cursor).kind = "note"
        /\ Marking(score, cursor).note.pitch = op.pitch
        /\ Marking(score, cursor).note.duration =
             Marking(op.score, op.cursor).note.duration
        /\ score = StoreMarking(op.score, op.cursor, MarkingStr(score, 0, cursor).str)

\* C10: set_pitch at a cursor whose measure, channel or marking does not
\* exist does not abort and leaves the score unchanged.
C10_SetPitchAbsent ==
    (op.name = "set_pitch" /\ ~Addresses(op.score, op.cursor)) =>
        ~fault /\ score = op.score

\* --------------------------------------------------- claims on the growth

\* C11: new_measure on a score whose movement 0 has a Bar appends exactly one
\* Bar with as many channels as the Bar that was last, each holding the one
\* marking "1R" (marking_len there is 1) and no lyric, without signature or
\* repeats, and changes nothing else; without such a Bar it changes nothing.
C11_NewMeasure ==
    op.name = "new_measure" =>
        LET old == BarsOf(op.score)
            new == BarsOf(score)
        IN  /\ ~fault
            /\ IF Len(old) = 0 THEN score = op.score
               ELSE /\ Len(new) = Len(old) + 1
                    /\ SubSeq(new, 1, Len(old)) = old
                    /\ score = [op.score EXCEPT ![1].bar = new]
                    /\ new[Len(new)].sig = "None"
                    /\ new[Len(new)].repeat = <<>>
                    /\ Len(new[Len(new)].chan) = Len(old[Len(old)].chan)
                    /\ \A c \in 1..Len(new[Len(new)].chan) :
                         /\ new[Len(new)].chan[c].notes = << <<"1", "R">> >>
                         /\ new[Len(new)].chan[c].lyric = <<>>
                         /\ MarkingLen(score, Cursor(Len(old), c - 1, 0)) =
                              [panic |-> FALSE, len |-> 1]

\* new_measure has appended a Bar of several channels after a Bar whose
\* channels held other markings
C11_Appended ==
    /\ op.name = "new_measure"
    /\ Len(BarsOf(op.score)) > 0
    /\ Len(BarsOf(score)) = Len(BarsOf(op.score)) + 1
    /\ Len(BarsOf(score)[Len(BarsOf(score))].chan) > 1
    /\ Len(BarsOf(op.score)[Len(BarsOf(op.score))].chan[1].notes) > 1

\* ------------------------------------------------ claims on the fractions

\* the greatest common divisor of two naturals
RECURSIVE Gcd(_, _)
Gcd(m, n) == IF n = 0 THEN m ELSE Gcd(n, m % n)

\* n / d in lowest terms (d > 0)
Lowest(n, d) == Fraction(n \div Gcd(n, d), d \div Gcd(n, d))

\* the order of the rational values
RationalOrder(a, b) ==
    IF a.num * b.den < b.num * a.den THEN "Less"
    ELSE IF a.num * b.den = b.num * a.den THEN "Equal"
    ELSE "Greater"

Arith == {"add", "sub", "mul", "div"}

\* whether o on a and b has an exact value among the unsigned fractions
Defined(o, a, b) ==
    /\ o = "sub" => RationalOrder(a, b) # "Less"
    /\ o = "div" => b.num # 0

\* numerator and denominator of the exact value, before reduction
ExactNum(o, a, b) ==
    CASE o = "add" -> a.num * b.den + b.num * a.den
      [] o = "sub" -> a.num * b.den - b.num * a.den
      [] o = "mul" -> a.num * b.num
      [] o = "div" -> a.num * b.den

ExactDen(o, a, b) ==
    CASE o = "add" -> a.den * b.den
      [] o = "sub" -> a.den * b.den
      [] o = "mul" -> a.den * b.den
      [] o = "div" -> a.den * b.num

\* the exact value in lowest terms
Exact(o, a, b) == Lowest(ExactNum(o, a, b), ExactDen(o, a, b))

\* C12: the comparison of two well-formed fractions reports Less, Equal or
\* Greater exactly as a.num * b.den compares with b.num * a.den.
C12_OrderIsRational ==
    fop = "cmp" => fres = FOrd(RationalOrder(fa, fb))

\* C13: when the exact sum, difference (a >= b), product or quotient (b
\* nonzero) in lowest terms fits numerator and denominator in a u8, the
\* operator returns exactly that fraction.
C13_ExactWhenRepresentable ==
    (/\ fop \in Arith
     /\ Defined(fop, fa, fb)
     /\ Exact(fop, fa, fb).num <= U8Max
     /\ Exact(fop, fa, fb).den <= U8Max)
        => fres = FOk(Exact(fop, fa, fb))

\* C14: every fraction returned by add, subtract, multiply or divide is in
\* lowest terms.
C14_LowestTerms ==
    (fop \in Arith /\ fres.kind = "ok") =>
        Gcd(fres.val.num, fres.val.den) = 1

\* C15: (a + b) + c and a + (b + c) have the same outcome.
C15_AddAssociative ==
    fop = "add3" => fres = fres2

\* C16: a + b and b + a have the same outcome, the same fraction field for
\* field or both a panic, in each of the three denominator cases.
C16_AddCommutative ==
    fop = "add2" => fres = fres2

\* both sums are returned, neither denominator divides the other, and the
\* operands differ
C16_SwappedNeitherDivides ==
    /\ fop = "add2"
    /\ fres.kind = "ok"
    /\ fres2.kind = "ok"
    /\ fa.den % fb.den # 0
    /\ fb.den % fa.den # 0
    /\ fa.num # fb.num

\* C17: no operation returns a fraction with denominator 0 or with a field
\* set to 0 that is not 0 in the exact value, and a division by a zero
\* fraction does not return a fraction.
C17_NoSilentZero ==
    fop \in Arith =>
        /\ fres.kind = "ok" =>
             /\ fres.val.den # 0
             /\ fres.val.num = 0 => ExactNum(fop, fa, fb) = 0
        /\ (fop = "div" /\ fb.num = 0) => fres.kind # "ok"

\* C18: a - b with a smaller than b does not return a fraction.
C18_SubUnderflowFails ==
    (fop = "sub" /\ RationalOrder(fa, fb) = "Less") => fres.kind = "panic"

\* ------------------------------------------------ claims on the durations

\* the legal maximum of dots per denomination as the specification lists it
ListedDotMax(k) ==
    CASE k = "Den128" -> 0
      [] k = "Den64"  -> 1
      [] k = "Den32"  -> 2
      [] k = "Den16"  -> 3
      [] k = "Den8"   -> 4
      [] k = "Den4"   -> 4
      [] k = "Den2"   -> 3
      [] k = "Num1"   -> 1
      [] k = "Num2"   -> 2
      [] k = "Num4"   -> 0

\* C19, as stated: from a dot-free Duration no sequence of augment and
\* diminish calls exceeds the listed maximum (128th 0, 64th 1, 32nd 2, 16th 3,
\* 8th 4, quarter 4, half 3, whole 1, double-whole 2, quadruple-whole 0), and
\* k augment calls alone leave k dots up to that maximum and the maximum from
\* then on.
C19_DotsReachListedMax ==
    /\ dur.a <= ListedDotMax(dur.kind)
    /\ raised => dur.a = Min({dcalls, ListedDotMax(dur.kind)})

\* C19, amended: the same with the maxima of the enum, whole 2 and
\* double-whole 1.
C19_DotsReachEnumMax ==
    /\ dur.a <= DotMax(dur.kind)
    /\ raised => dur.a = Min({dcalls, DotMax(dur.kind)})

\* a whole note augmented more than twice has two dots
C19_WholeTwoDots ==
    /\ dur.kind = "Num1"
    /\ raised
    /\ dcalls > 2
    /\ dur.a = 2

\* C20: augment adds one dot below the denomination's maximum and changes
\* nothing at the maximum; diminish removes one dot above 0 and changes
\* nothing at 0; 128th and quadruple-whole are changed by neither; the
\* denomination and the tuplet are never changed.
C20_AugmentDiminishStep ==
    /\ dcall = "augment" =>
         dur = [dprev EXCEPT !.a = IF @ < DotMax(dprev.kind) THEN @ + 1 ELSE @]
    /\ dcall = "diminish" =>
         dur = [dprev EXCEPT !.a = IF @ > 0 THEN @ - 1 ELSE @]
    /\ (dcall # "none" /\ dprev.kind \in {"Den128", "Num4"}) => dur = dprev

\* a triplet quarter note augmented five times has four dots
C20_QuarterFiveTimes ==
    /\ dur = Duration("Den4", 3, 2, 4)
    /\ raised
    /\ dcalls = 5

\* -------------------------------------------- claims on the duration text

\* the '.' characters that follow position i of s without a break
DotRun(s, i) ==
    Min({k \in 0..Len(s) : i + k + 1 > Len(s) \/ s[i + k + 1] # "."})

\* C21: from_str fails on a text with a character that is neither a
\* denomination letter nor '.', on a '.' with no letter before it, and on a
\* letter followed by more dots than its denomination allows.
C21_ParseRejects ==
    (/\ dres # NotParsed
     /\ \/ \E i \in 1..Len(dtext) : dtext[i] \notin DOMAIN LetterDuration \cup {"."}
        \/ (dtext # <<>> /\ dtext[1] = ".")
        \/ \E i \in 1..Len(dtext) :
             /\ dtext[i] \in DOMAIN LetterDuration
             /\ DotRun(dtext, i) > DotMax(LetterDuration[dtext[i]].kind))
        => dres.kind = "err"

\* C22: a text of one denomination letter and at most as many dots as the
\* denomination allows parses to one Duration, and that Duration is
\* formatted as the text.
C22_DurationTextRoundTrip ==
    (/\ dtext # <<>>
     /\ dtext[1] \in DOMAIN LetterDuration
     /\ DotRun(dtext, 1) = Len(dtext) - 1
     /\ Len(dtext) - 1 <= DotMax(LetterDuration[dtext[1]].kind))
        => /\ dres # NotParsed => (dres.kind = "ok" /\ Len(dres.out) = 1)
           /\ dfmt # <<>> => dfmt = <<dtext>>

\* a whole note with two dots has been parsed and formatted
C22_WholeTwoDotsFormatted ==
    /\ dtext = <<"W", ".", ".">>
    /\ dres.kind = "ok"
    /\ dfmt = <<dtext>>

\* ---------------------------------------------------- claims on the steps

\* the letters in the order of the diatonic cycle
LetterCycle == <<"A", "B", "C", "D", "E", "F", "G">>

\* the letter k places after `name` in the cycle
LetterAfter(name, k) ==
    LetterCycle[(((CHOOSE i \in 1..7 : LetterCycle[i] = name) - 1 + k) % 7) + 1]

\* C23, as stated: on every pitched Note, whatever the letter and the octave,
\* step_up gives the next letter of the cycle and the octave one higher
\* exactly from B to C, step_down the previous letter and the octave one
\* lower exactly from C to B; accidental, duration and articulation are kept.
C23_StepEveryOctave ==
    /\ (scall = "step_up" /\ sprev.pitch.some) =>
         snote = [sprev EXCEPT
                    !.pitch.name = LetterAfter(@, 1),
                    !.pitch.octave = IF sprev.pitch.name = "B" THEN @ + 1 ELSE @]
    /\ (scall = "step_down" /\ sprev.pitch.some) =>
         snote = [sprev EXCEPT
                    !.pitch.name = LetterAfter(@, 6),
                    !.pitch.octave = IF sprev.pitch.name = "C" THEN @ - 1 ELSE @]

\* C23, amended: the same on every pitched Note other than B9 for step_up and
\* C-1 for step_down, which have no octave to go to and are returned as they
\* are.
C23_StepWithinOctaves ==
    /\ (scall = "step_up" /\ sprev.pitch.some) =>
         snote = IF sprev.pitch.name = "B" /\ sprev.pitch.octave = 9 THEN sprev
                 ELSE [sprev EXCEPT
                         !.pitch.name = LetterAfter(@, 1),
                         !.pitch.octave =
                             IF sprev.pitch.name = "B" THEN @ + 1 ELSE @]
    /\ (scall = "step_down" /\ sprev.pitch.some) =>
         snote = IF sprev.pitch.name = "C" /\ sprev.pitch.octave = -1 THEN sprev
                 ELSE [sprev EXCEPT
                         !.pitch.name = LetterAfter(@, 6),
                         !.pitch.octave =
                             IF sprev.pitch.name = "C" THEN @ - 1 ELSE @]

\* B4 sharp, staccato, has been stepped up to C5 sharp, staccato
C23_B4UpIsC5 ==
    /\ scall = "step_up"
    /\ sprev.pitch = [SomePitch("B", 4) EXCEPT !.accidental = "Sharp"]
    /\ snote.pitch = [SomePitch("C", 5) EXCEPT !.accidental = "Sharp"]
    /\ snote.articulation = <<"Staccato">>

\* C24: fraction() returns the base fraction of the denomination times
\* tuplet denominator over tuplet numerator, in lowest terms, whatever the
\* dots are and whatever augment and diminish calls were made before or
\* after.
C24_FractionIsBaseTimesTuplet ==
    dfrac # FNone =>
        dfrac = FOk(Lowest(DurationBase(dur.kind).num * dur.d,
                           DurationBase(dur.kind).den * dur.n))

\* ----------------------------------------------- claims on the round trips

\* C25: from a cursor that addresses an existing marking (marking <
\* marking_len), right then left returns the cursor, also when right goes
\* past the last measure; and from such a cursor other than (0, channel, 0),
\* left then right returns it when the measure left reaches has the channel
\* with at least one marking.
C25_RoundTrips ==
    LET c == op.cursor
        len == MarkingLen(op.score, c)
    IN  (~len.panic /\ c.marking < len.len) =>
            /\ op.name = "right_left" => (~fault /\ cursor = c)
            /\ (/\ op.name = "left_right"
                /\ ~(c.measure = 0 /\ c.marking = 0)
                /\ c.marking = 0 =>
                     Len(StoredNotes(op.score, c.measure - 1, c.chan)) >= 1)
                   => (~fault /\ cursor = c)

====
